---- MODULE Spec2Model ----
(***************************************************************************)
(* Adaline (mlxtend/classifier/adaline.py): the estimator's attributes,    *)
(* the process-wide numpy random generator it seeds and draws from, and    *)
(* its operations __init__, fit and predict.                               *)
(*                                                                         *)
(* Numbers.  Features and targets are integers.  Every float64 quantity    *)
(* (weights, net input, errors, costs, eta, thresholds) is a fixed-point   *)
(* integer counting units of 1/Scale; a product of two such quantities is  *)
(* rounded down to the grid, as a float product is rounded to the nearest  *)
(* representable number.                                                   *)
(*                                                                         *)
(* Random numbers.  numpy's generator is a state and a deterministic       *)
(* step; seed(k) sets the state from k, seed(None) sets it from the        *)
(* system's entropy (any state).                                           *)
(***************************************************************************)
EXTENDS Integers, Sequences, FiniteSets, TLC

VARIABLES
    rng,    \* state of the process-wide generator (np.random)
    obj,    \* the attributes of each instance
    nops,   \* operations called on each instance so far
    last,   \* the most recent fit call on each instance: its inputs and outcome
    call,   \* the most recent operation: its inputs and outcome
    hist,   \* the fit calls of each instance in order (kept in paired runs)
    plan    \* the hyperparameters and data shared by paired runs

vars == <<rng, obj, nops, last, call, hist, plan>>

---------------------------------------------------------------------------
(* Bounds of the model *)

MaxCalls == 2
MaxEpochs == 2
MaxFeat == 2
NRows == 3

(* Resolution of the fixed-point grid standing for float64 *)
Scale == 100

(* Number of states of the random generator *)
RngMod == 4

Insts == {"a", "b"}
None == -1

Solvers == {"normal equation", "gd", "sgd"}
Labels == {-1, 0, 1, 2}

---------------------------------------------------------------------------
(* Arithmetic *)

FMul(a, b) == (a * b) \div Scale

RECURSIVE SumSeq(_)
SumSeq(s) == IF s = <<>> THEN 0 ELSE Head(s) + SumSeq(Tail(s))

Dot(a, b) == SumSeq([j \in 1..Len(a) |-> a[j] * b[j]])

RECURSIVE SortedSeq(_)
SortedSeq(S) ==
    IF S = {} THEN <<>>
    ELSE LET m == CHOOSE x \in S : \A z \in S : x <= z
         IN  <<m>> \o SortedSeq(S \ {m})

(* np.unique(y): the distinct values of y in increasing order *)
Unique(y) == SortedSeq({y[i] : i \in 1..Len(y)})

---------------------------------------------------------------------------
(* The process-wide generator: np.random.seed, ranf, permutation *)

RngStates == 0..(RngMod - 1)

RngStep(s) == (5 * s + 3) % RngMod

Seeded(seed) == IF seed = None THEN RngStates ELSE {seed % RngMod}

(* np.random.ranf(k): k successive draws u in [0,1), on the grid *)
RECURSIVE Ranf(_, _)
Ranf(s, k) ==
    IF k = 0 THEN [vals |-> <<>>, rng |-> s]
    ELSE LET s1 == RngStep(s)
             r  == Ranf(s1, k - 1)
         IN  [vals |-> <<(s1 * Scale) \div RngMod>> \o r.vals, rng |-> r.rng]

Swap(p, i, j) == [p EXCEPT ![i] = p[j], ![j] = p[i]]

(* np.random.permutation(n): shuffle of 1..n, from the last position down,
   each position exchanged with a drawn position not above it *)
RECURSIVE Permute(_, _, _)
Permute(s, p, i) ==
    IF i <= 1 THEN [perm |-> p, rng |-> s]
    ELSE LET s1 == RngStep(s)
             j  == (s1 % i) + 1
         IN  Permute(s1, Swap(p, i, j), i - 1)

Permutation(s, n) == Permute(s, [i \in 1..n |-> i], n)

(* _shuffle: one permutation applied to X and y alike *)
Shuffle(s, X, y) ==
    LET r == Permutation(s, Len(y))
    IN  [X   |-> [X EXCEPT !.rows = [i \in 1..Len(y) |-> X.rows[r.perm[i]]]],
         y   |-> [i \in 1..Len(y) |-> y[r.perm[i]]],
         rng |-> r.rng]

---------------------------------------------------------------------------
(* Arrays: X is [ndim, rows]; X.shape[1] is the length of a row *)

NFeat(X) == Len(X.rows[1])

Array2(rows) == [ndim |-> 2, rows |-> rows]
Array1(vals) == [ndim |-> 1, rows |-> [i \in 1..Len(vals) |-> <<vals[i]>>]]

---------------------------------------------------------------------------
(* The instance *)

NoObj ==
    [alive |-> FALSE, eta |-> 0, epochs |-> 0, shuffle |-> FALSE,
     solver |-> "", zero_init_weight |-> FALSE,
     attrs |-> {}, w_ |-> <<>>, cost_ |-> <<>>, classes_ |-> <<>>, thres_ |-> 0]

NewObj(cfg) ==
    [NoObj EXCEPT !.alive = TRUE, !.eta = cfg.eta, !.epochs = cfg.epochs,
                  !.shuffle = cfg.shuffle, !.solver = cfg.solver,
                  !.zero_init_weight = cfg.zero_init_weight]

(* net_input of one row x: np.dot(x, w_[1:]) + w_[0] *)
NetInput(w, x) == Dot(x, Tail(w)) + w[1]

Activation(w, x) == NetInput(w, x)

(* _init_weights(shape) *)
InitWeights(o, s, shape) ==
    IF o.zero_init_weight
    THEN [obj |-> [o EXCEPT !.w_ = [j \in 1..shape |-> 0],
                            !.attrs = @ \cup {"w_"}],
          rng |-> s]
    ELSE LET r == Ranf(s, shape)
         IN  [obj |-> [o EXCEPT !.w_ = [j \in 1..shape |->
                                          FMul(Scale \div 5, r.vals[j]) - Scale \div 2],
                                !.attrs = @ \cup {"w_"}],
              rng |-> r.rng]

---------------------------------------------------------------------------
(* The solvers *)

(* lines 106-107: errors = y - activation(X) *)
Errors(w, X, y) == [i \in 1..Len(y) |-> y[i] * Scale - Activation(w, X.rows[i])]

(* lines 108-109: w_[1:] += eta * X.T.dot(errors); w_[0] += eta * errors.sum() *)
GdUpdate(w, eta, X, errors) ==
    [j \in 1..Len(w) |->
       IF j = 1 THEN w[1] + FMul(eta, SumSeq(errors))
       ELSE w[j] + FMul(eta, SumSeq([i \in 1..Len(errors) |-> X.rows[i][j - 1] * errors[i]]))]

(* line 110: (errors**2).sum() / 2.0 *)
HalfSquares(errors) ==
    SumSeq([i \in 1..Len(errors) |-> FMul(errors[i], errors[i])]) \div 2

GdEpochCostAfter(w, eta, X, y) ==
    [w    |-> GdUpdate(w, eta, X, Errors(w, X, y)),
     cost |-> HalfSquares(Errors(GdUpdate(w, eta, X, Errors(w, X, y)), X, y))]

(* One gd epoch, lines 106-110 *)
GdEpoch(w, eta, X, y) ==
    [w    |-> GdUpdate(w, eta, X, Errors(w, X, y)),
     cost |-> HalfSquares(Errors(w, X, y))]

(* One sample of an sgd epoch, lines 115-119 *)
SgdSample(w, eta, xi, yi) ==
    LET yi_val == NetInput(w, xi)
        error  == yi * Scale - yi_val
    IN  [w    |-> [j \in 1..Len(w) |->
                     IF j = 1 THEN w[1] + FMul(eta, error)
                     ELSE w[j] + FMul(eta, xi[j - 1] * error)],
         cost |-> FMul(error, error) \div 2]

(* One sgd epoch, lines 113-119: the samples in row order from sample i on *)
RECURSIVE SgdPass(_, _, _, _, _, _)
SgdPass(w, eta, X, y, i, cost) ==
    IF i > Len(y) THEN [w |-> w, cost |-> cost]
    ELSE LET r == SgdSample(w, eta, X.rows[i], y[i])
         IN  SgdPass(r.w, eta, X, y, i + 1, cost + r.cost)

SgdEpochBatch(w, eta, X, y) ==
    [w    |-> GdEpoch(w, eta, X, y).w,
     cost |-> SumSeq([i \in 1..Len(y) |-> SgdSample(w, eta, X.rows[i], y[i]).cost])]

SgdEpoch(w, eta, X, y) == SgdPass(w, eta, X, y, 1, 0)

(* lines 105-120: one epoch of the instance's solver on X, y *)
Epoch(solver, w, eta, X, y) ==
    IF solver = "gd" THEN GdEpoch(w, eta, X, y) ELSE SgdEpoch(w, eta, X, y)

WithEpoch(o, e) == [o EXCEPT !.w_ = e.w, !.cost_ = Append(@, e.cost)]

RunEpoch(o, X, y) == WithEpoch(o, Epoch(o.solver, o.w_, o.eta, X, y))

(* Determinant and adjugate of a square integer matrix *)
Minor(M, r, c) ==
    LET n == Len(M)
    IN  [i \in 1..(n - 1) |->
           [j \in 1..(n - 1) |->
              M[IF i < r THEN i ELSE i + 1][IF j < c THEN j ELSE j + 1]]]

RECURSIVE Det(_)
Det(M) ==
    IF Len(M) = 0 THEN 1
    ELSE SumSeq([j \in 1..Len(M) |->
                   (IF j % 2 = 1 THEN 1 ELSE -1) * M[1][j] * Det(Minor(M, 1, j))])

Adj(M) ==
    [i \in 1..Len(M) |->
       [j \in 1..Len(M) |->
          (IF (i + j) % 2 = 0 THEN 1 ELSE -1) * Det(Minor(M, j, i))]]

(* _normal_equation, lines 131-135: Xb, Xb.T Xb, Xb.T y *)
Augmented(X) == [i \in 1..Len(X.rows) |-> <<1>> \o X.rows[i]]

Gram(Xb) ==
    [a \in 1..Len(Xb[1]) |->
       [b \in 1..Len(Xb[1]) |->
          SumSeq([i \in 1..Len(Xb) |-> Xb[i][a] * Xb[i][b]])]]

(* np.linalg.inv raises LinAlgError on a singular matrix *)
Singular(X) == Det(Gram(Augmented(X))) = 0

(* z . (Xb.T y) with z = adj(G) / det(G), rounded to the grid *)
Solution(z, det, v) == [a \in 1..Len(v) |-> (Scale * Dot(z[a], v)) \div det]

Moment(Xb, y) ==
    [a \in 1..Len(Xb[1]) |-> SumSeq([i \in 1..Len(Xb) |-> Xb[i][a] * y[i]])]

NormalEquationOf(G, Xb, y) == Solution(Adj(G), Det(G), Moment(Xb, y))

NormalEquation(X, y) == NormalEquationOf(Gram(Augmented(X)), Augmented(X), y)

---------------------------------------------------------------------------
(* fit *)

LabelErrorNoUpper(classes) ==
    \/ Len(classes) # 2
    \/ classes[1] \notin {-1, 0}

(* lines 79-81: the condition under which fit raises the label error *)
LabelError(classes) ==
    \/ Len(classes) # 2
    \/ classes[1] \notin {-1, 0}
    \/ classes[2] # 1

ThresholdHalf(classes) == Scale \div 2

(* lines 84-87 *)
Threshold(classes) == IF classes[1] = -1 THEN 0 ELSE Scale \div 2

StartWeightsAlways(o, s, X, init_weights) == InitWeights(o, s, 1 + NFeat(X))

StartWeightsShort(o, s, X, init_weights) ==
    IF init_weights THEN InitWeights(o, s, NFeat(X))
    ELSE [obj |-> o, rng |-> s]

(* lines 90-91 *)
StartWeights(o, s, X, init_weights) ==
    IF init_weights THEN InitWeights(o, s, 1 + NFeat(X))
    ELSE [obj |-> o, rng |-> s]

KeepCost(o) == [o EXCEPT !.attrs = @ \cup {"cost_"}]

(* line 93 *)
ResetCost(o) == [o EXCEPT !.cost_ = <<>>, !.attrs = @ \cup {"cost_"}]

(* lines 100-120: k more epochs; X and y are rebound by each shuffle *)
RECURSIVE Train(_, _, _, _, _)
Train(o, s, X, y, k) ==
    IF k = 0 THEN [obj |-> o, rng |-> s, err |-> "none"]
    ELSE LET d == IF o.shuffle THEN Shuffle(s, X, y)
                  ELSE [X |-> X, y |-> y, rng |-> s]
         IN  IF "w_" \notin o.attrs
             THEN [obj |-> o, rng |-> d.rng, err |-> "attribute"]
             ELSE IF Len(o.w_) # 1 + NFeat(d.X)
             THEN [obj |-> o, rng |-> d.rng, err |-> "dimension"]
             ELSE Train(RunEpoch(o, d.X, d.y), d.rng, d.X, d.y, k - 1)

(* lines 95-120 *)
Solve(o, s, X, y) ==
    IF o.solver = "normal equation"
    THEN IF Singular(X)
         THEN [obj |-> o, rng |-> s, err |-> "singular"]
         ELSE [obj |-> [o EXCEPT !.w_ = NormalEquation(X, y),
                                 !.attrs = @ \cup {"w_"}],
               rng |-> s, err |-> "none"]
    ELSE Train(o, s, X, y, o.epochs)

(* fit(X, y, init_weights), lines 73-122: the instance and the generator
   after the call, the error raised ("none": fit returned), and the weights
   the solver started from *)
Fit(o, s, X, y, init_weights) ==
    IF X.ndim # 2
    THEN [obj |-> o, rng |-> s, err |-> "shape", w0 |-> <<>>]
    ELSE
    LET o1 == [o EXCEPT !.classes_ = Unique(y), !.attrs = @ \cup {"classes_"}]
    IN  IF LabelError(o1.classes_)
        THEN [obj |-> o1, rng |-> s, err |-> "label", w0 |-> <<>>]
        ELSE
        LET o2 == [o1 EXCEPT !.thres_ = Threshold(o1.classes_),
                             !.attrs = @ \cup {"thres_"}]
            st == StartWeights(o2, s, X, init_weights)
            o4 == ResetCost(st.obj)
            r  == Solve(o4, st.rng, X, y)
        IN  [obj |-> r.obj, rng |-> r.rng, err |-> r.err, w0 |-> o4.w_]

(* predict(X), lines 168-169 *)
Predict(o, X) ==
    IF "w_" \notin o.attrs THEN [err |-> "attribute", out |-> <<>>]
    ELSE IF Len(o.w_) # 1 + NFeat(X) THEN [err |-> "dimension", out |-> <<>>]
    ELSE [err |-> "none",
          out |-> [i \in 1..Len(X.rows) |->
                     IF NetInput(o.w_, X.rows[i]) >= o.thres_
                     THEN o.classes_[2] ELSE o.classes_[1]]]

---------------------------------------------------------------------------
(* Inputs *)

Etas == {Scale \div 10}

(* The smallest and the largest epoch count and feature count *)
EpochCounts == {1, MaxEpochs}
FeatCounts == {1, MaxFeat}

(* Hyperparameters; eta, epochs and shuffle are read by gd and sgd only *)
Configs ==
    [eta : Etas, epochs : EpochCounts, shuffle : BOOLEAN, solver : {"gd", "sgd"},
     zero_init_weight : BOOLEAN]
    \cup
    [eta : Etas, epochs : {1}, shuffle : {FALSE}, solver : {"normal equation"},
     zero_init_weight : BOOLEAN]

BadConfigs ==
    [eta : Etas, epochs : {1}, shuffle : {FALSE}, solver : {"lbfgs"},
     zero_init_weight : {FALSE}]

(* Feature tables of NRows rows and f columns: every entry 1 (the columns
   repeat the constant column, so the normal equation is singular), and
   entry (i, j) 1 exactly when i > j (not singular when NRows > f) *)
Ones(f)   == Array2([i \in 1..NRows |-> [j \in 1..f |-> 1]])
Stairs(f) == Array2([i \in 1..NRows |-> [j \in 1..f |-> IF i > j THEN 1 ELSE 0]])

Designs == {Ones(f) : f \in FeatCounts} \cup {Stairs(f) : f \in FeatCounts}

Flat == Array1([i \in 1..NRows |-> i])

(* The targets that take the values of S in turn *)
TargetOf(S) ==
    LET u == SortedSeq(S) IN [i \in 1..NRows |-> u[((i - 1) % Len(u)) + 1]]

LabelSets == {{0, 1}, {-1, 1}, {1, 2}}

Targets == {TargetOf(S) : S \in LabelSets}

AllTargets == [1..NRows -> Labels]

---------------------------------------------------------------------------
(* Operations *)

NoFit == [n |-> 0, ndim |-> 0, nfeat |-> 0, y |-> <<>>, init |-> FALSE, err |-> "none"]
NoCall == [op |-> "none", inst |-> ""]
NoPlan == [solver |-> ""]

(* __init__, lines 44-52: the generator is seeded before the solver is checked *)
Construct(i, cfg, seed) ==
    /\ ~obj[i].alive
    /\ rng' \in Seeded(seed)
    /\ obj' = IF cfg.solver \in Solvers THEN [obj EXCEPT ![i] = NewObj(cfg)] ELSE obj
    /\ call' = [op |-> "init", inst |-> i,
                err |-> IF cfg.solver \in Solvers THEN "none" ELSE "config"]
    /\ UNCHANGED <<nops, last>>

(* The call fit(X, y, init_weights) on instance i with outcome r *)
Fitting(i, X, y, init_weights, r) ==
    /\ obj[i].alive
    /\ obj' = [obj EXCEPT ![i] = r.obj]
    /\ rng' = r.rng
    /\ last' = [last EXCEPT ![i] =
                  [n |-> @.n + 1, ndim |-> X.ndim, nfeat |-> NFeat(X), y |-> y,
                   init |-> init_weights, err |-> r.err]]
    /\ call' = [op |-> "fit", inst |-> i]
    /\ nops' = [nops EXCEPT ![i] = @ + 1]
    /\ hist' = [hist EXCEPT ![i] =
                  IF plan = NoPlan THEN @
                  ELSE Append(@, [init |-> init_weights, err |-> r.err, w0 |-> r.w0])]

FitCall(i, X, y, init_weights) ==
    Fitting(i, X, y, init_weights, Fit(obj[i], rng, X, y, init_weights))

PredictCall(i, X) ==
    /\ obj[i].alive
    /\ LET r == Predict(obj[i], X)
       IN  call' = [op |-> "predict", inst |-> i, X |-> X, out |-> r.out, err |-> r.err]
    /\ nops' = [nops EXCEPT ![i] = @ + 1]
    /\ UNCHANGED <<rng, obj, last>>

---------------------------------------------------------------------------
(* One instance: construction, then fit and predict calls in any order *)

Init ==
    /\ rng \in RngStates
    /\ obj = [i \in Insts |-> NoObj]
    /\ nops = [i \in Insts |-> 0]
    /\ last = [i \in Insts |-> NoFit]
    /\ call = NoCall
    /\ hist = [i \in Insts |-> <<>>]
    /\ plan = NoPlan

New(cfg, seed) ==
    /\ Construct("a", cfg, seed)
    /\ UNCHANGED <<hist, plan>>

DoFit(X, y, init_weights) ==
    /\ nops["a"] < MaxCalls
    /\ FitCall("a", X, y, init_weights)
    /\ UNCHANGED plan

DoPredict(X) ==
    /\ nops["a"] < MaxCalls
    /\ PredictCall("a", X)
    /\ UNCHANGED <<hist, plan>>

Next ==
    \/ \E cfg \in Configs \cup BadConfigs : New(cfg, 1)
    \/ \E X \in Designs, y \in Targets, init_weights \in BOOLEAN :
          DoFit(X, y, init_weights)
    \/ \E f \in FeatCounts : DoPredict(Stairs(f))

Spec == Init /\ [][Next]_vars

---------------------------------------------------------------------------
(* Properties of one instance *)

TrainLabels(i) == {last[i].y[k] : k \in 1..Len(last[i].y)}
Larger(S)  == CHOOSE x \in S : \A z \in S : z <= x
Smaller(S) == CHOOSE x \in S : \A z \in S : x <= z

Fitted(i) == last[i].n > 0 /\ last[i].err = "none"

Learned(o) == <<o.attrs, o.w_, o.cost_, o.classes_, o.thres_>>

(* C2: when the most recent fit succeeded, predict returns for every row the
   larger training label if the row's net input is at least the threshold
   (0.0 for labels {-1,1}, 0.5 for {0,1}) and the smaller training label
   otherwise, so only labels of the training targets are returned *)
C2_PredictByThreshold ==
    (call.op = "predict" /\ call.err = "none" /\ Fitted(call.inst)) =>
        LET i == call.inst
            S == TrainLabels(i)
            t == IF S = {-1, 1} THEN 0 ELSE Scale \div 2
        IN  /\ Len(call.out) = Len(call.X.rows)
            /\ \A k \in 1..Len(call.out) :
                 /\ call.out[k] = IF NetInput(obj[i].w_, call.X.rows[k]) >= t
                                  THEN Larger(S) ELSE Smaller(S)
                 /\ call.out[k] \in S

C2_Witness ==
    /\ call.op = "predict" /\ call.err = "none" /\ Fitted(call.inst)
    /\ TrainLabels(call.inst) = {-1, 1}
    /\ {call.out[k] : k \in 1..Len(call.out)} = {-1, 1}

(* C3: after every successful fit the cost history has exactly `epochs`
   entries for gd and sgd and none for the normal equation, whatever fits
   came before and whether or not the weights were re-initialised *)
C3_CostLength ==
    \A i \in Insts :
        Fitted(i) =>
            Len(obj[i].cost_) =
                IF obj[i].solver = "normal equation" THEN 0 ELSE obj[i].epochs

C3_Witness ==
    /\ Fitted("a") /\ last["a"].n = 2 /\ ~last["a"].init
    /\ obj["a"].solver = "sgd" /\ obj["a"].epochs = MaxEpochs

(* C4: a fit call on a fitted instance that raises the label error leaves
   every learned attribute (weights, cost history, label pair, threshold)
   as it was before the call *)
C4_LabelErrorKeepsLearned ==
    [][\A i \in Insts :
         (Fitted(i) /\ last'[i].n = last[i].n + 1 /\ last'[i].err = "label") =>
             Learned(obj'[i]) = Learned(obj[i])]_vars

(* C5: a normal-equation fit that fails with the singular-matrix error
   leaves the weight vector as it was before the call, with init_weights
   true or false *)
C5_SingularKeepsWeights ==
    [][\A i \in Insts :
         (last'[i].n = last[i].n + 1 /\ last'[i].err = "singular") =>
             /\ obj'[i].w_ = obj[i].w_
             /\ ("w_" \in obj'[i].attrs) = ("w_" \in obj[i].attrs)]_vars

(* C7 as stated: whenever a weight vector exists, its length is 1 + the
   number of feature columns passed to the most recent fit call *)
C7_LengthAfterAnyFit ==
    \A i \in Insts :
        (last[i].n > 0 /\ "w_" \in obj[i].attrs) =>
            Len(obj[i].w_) = 1 + last[i].nfeat

(* C7, amended: whenever a weight vector exists and the most recent fit call
   succeeded, or failed with the singular-matrix error under
   init_weights=True, its length is 1 + the number of feature columns passed
   to that call *)
C7_LengthAfterWritingFit ==
    \A i \in Insts :
        (/\ last[i].n > 0 /\ "w_" \in obj[i].attrs
         /\ \/ last[i].err = "none"
            \/ last[i].err = "singular" /\ last[i].init) =>
            Len(obj[i].w_) = 1 + last[i].nfeat

C7_Witness ==
    /\ last["a"].n = 2 /\ last["a"].err = "none" /\ ~last["a"].init
    /\ obj["a"].solver = "normal equation"
    /\ last["a"].nfeat = MaxFeat /\ Len(obj["a"].w_) = 1 + MaxFeat

---------------------------------------------------------------------------
(* One fit call on a fresh instance, over every target sequence *)

InitLabels ==
    /\ rng \in Seeded(1)
    /\ \E cfg \in Configs : obj = [i \in Insts |-> IF i = "a" THEN NewObj(cfg) ELSE NoObj]
    /\ nops = [i \in Insts |-> 0]
    /\ last = [i \in Insts |-> NoFit]
    /\ call = [op |-> "init", inst |-> "a", err |-> "none"]
    /\ hist = [i \in Insts |-> <<>>]
    /\ plan = NoPlan

FitOnce(X, y, init_weights) ==
    /\ nops["a"] = 0
    /\ FitCall("a", X, y, init_weights)
    /\ UNCHANGED plan

NextLabels ==
    \E X \in Designs \cup {Flat}, y \in AllTargets, init_weights \in BOOLEAN :
        FitOnce(X, y, init_weights)

SpecLabels == InitLabels /\ [][NextLabels]_vars

(* C1: a fit call on a two-dimensional X raises the label error exactly when
   the distinct target values are not two values whose smaller one is 0 or
   -1 and whose larger one is 1 *)
C1_LabelErrorIff ==
    \A i \in Insts :
        (last[i].n > 0 /\ last[i].ndim = 2) =>
            LET S == TrainLabels(i)
            IN  (last[i].err = "label") <=>
                    ~(Cardinality(S) = 2 /\ Smaller(S) \in {0, -1} /\ Larger(S) = 1)

C1_Witness ==
    /\ last["a"].n = 1 /\ last["a"].ndim = 2 /\ last["a"].err = "label"
    /\ TrainLabels("a") = {-1, 0}

---------------------------------------------------------------------------
(* One epoch after another from arbitrary weights: the loop body of fit,
   lines 105-120, on an instance in the middle of fit *)

EpochRows == 2
EpochFeats == {1, 2}
WeightVals == {0 - Scale \div 2, Scale}

Tables(n, f) == {Array2(r) : r \in [1..n -> [1..f -> {0, 1}]]}

Starts(f) == [1..(f + 1) -> WeightVals] \cup {[j \in 1..(f + 1) |-> 0]}

ValidTargets(n) == {y \in [1..n -> Labels] : ~LabelError(Unique(y))}

InitEpoch ==
    /\ rng = 0
    /\ \E f \in EpochFeats, sv \in {"gd", "sgd"} :
         \E X \in Tables(EpochRows, f), y \in ValidTargets(EpochRows), w \in Starts(f) :
            /\ obj = [i \in Insts |->
                        IF i = "a"
                        THEN [alive |-> TRUE, eta |-> Scale \div 10, epochs |-> MaxEpochs,
                              shuffle |-> FALSE, solver |-> sv,
                              zero_init_weight |-> FALSE,
                              attrs |-> {"classes_", "thres_", "w_", "cost_"},
                              w_ |-> w, cost_ |-> <<>>, classes_ |-> Unique(y),
                              thres_ |-> Threshold(Unique(y))]
                        ELSE NoObj]
            /\ call = [op |-> "loop", inst |-> "a", X |-> X, y |-> y, w0 |-> w]
    /\ nops = [i \in Insts |-> 0]
    /\ last = [i \in Insts |-> NoFit]
    /\ hist = [i \in Insts |-> <<>>]
    /\ plan = NoPlan

EpochStep ==
    /\ call.op \in {"loop", "epoch"}
    /\ Len(obj["a"].cost_) < obj["a"].epochs
    /\ obj' = [obj EXCEPT !["a"] = RunEpoch(@, call.X, call.y)]
    /\ call' = [call EXCEPT !.op = "epoch", !.w0 = obj["a"].w_]
    /\ UNCHANGED <<rng, nops, last, hist, plan>>

SpecEpoch == InitEpoch /\ [][EpochStep]_vars

(* The errors of all samples under the weights w *)
RefErrors(w, X, y) ==
    [i \in 1..Len(y) |->
       y[i] * Scale
         - (SumSeq([j \in 1..NFeat(X) |-> X.rows[i][j] * w[j + 1]]) + w[1])]

(* C8: one gd epoch is a single batch update: the errors of all samples are
   taken under the weights w the epoch starts from, w[1:] grows by
   eta * X^T error and w[0] by eta * sum(error), and the cost appended is
   sum(error^2)/2 of those errors *)
C8_GdEpochIsBatchUpdate ==
    (call.op = "epoch" /\ obj["a"].solver = "gd") =>
        LET w   == call.w0
            X   == call.X
            err == RefErrors(w, X, call.y)
            n   == Len(call.y)
            o   == obj["a"]
        IN  /\ Len(o.w_) = Len(w)
            /\ o.w_[1] = w[1] + FMul(o.eta, SumSeq(err))
            /\ \A j \in 1..NFeat(X) :
                 o.w_[j + 1] =
                     w[j + 1] + FMul(o.eta, SumSeq([i \in 1..n |-> X.rows[i][j] * err[i]]))
            /\ o.cost_[Len(o.cost_)] = SumSeq([i \in 1..n |-> FMul(err[i], err[i])]) \div 2

C8_Witness ==
    /\ call.op = "epoch" /\ obj["a"].solver = "gd"
    /\ NFeat(call.X) = 2 /\ Len(obj["a"].cost_) = 2
    /\ \A j \in 1..3 : obj["a"].w_[j] # call.w0[j]
    /\ obj["a"].cost_[2] > 0

(* The weights after the first i samples of an sgd epoch started from w,
   and the error each sample had when it was visited *)
RefOnline(w, eta, X, y) ==
    LET W[i \in 0..Len(y)] ==
            IF i = 0 THEN [w |-> w, errs |-> <<>>]
            ELSE LET p   == W[i - 1].w
                     err == y[i] * Scale
                              - (SumSeq([j \in 1..NFeat(X) |-> X.rows[i][j] * p[j + 1]])
                                   + p[1])
                 IN  [w    |-> [j \in 1..Len(w) |->
                                  IF j = 1 THEN p[1] + FMul(eta, err)
                                  ELSE p[j] + FMul(eta, X.rows[i][j - 1] * err)],
                      errs |-> Append(W[i - 1].errs, err)]
    IN  W[Len(y)]

(* C9: one sgd epoch visits the samples in row order; the error of sample i
   is taken under the weights already updated by samples 0..i-1, then w[1:]
   grows by eta * x_i * error_i and w[0] by eta * error_i, and the cost
   appended is the sum of error_i^2/2, each error taken before its update *)
C9_SgdEpochIsOnline ==
    (call.op = "epoch" /\ obj["a"].solver = "sgd") =>
        LET r == RefOnline(call.w0, obj["a"].eta, call.X, call.y)
            o == obj["a"]
        IN  /\ o.w_ = r.w
            /\ o.cost_[Len(o.cost_)] =
                   SumSeq([i \in 1..Len(call.y) |-> FMul(r.errs[i], r.errs[i]) \div 2])

C9_Witness ==
    /\ call.op = "epoch" /\ obj["a"].solver = "sgd"
    /\ NFeat(call.X) = 2 /\ Len(obj["a"].cost_) = 2
    /\ obj["a"].w_ # GdEpoch(call.w0, obj["a"].eta, call.X, call.y).w

---------------------------------------------------------------------------
(* Two instances in one process, built from the same hyperparameters and
   seed and fitted on the same data, at most twice each, in any order.  The
   second instance may be given twice the epochs of the plan. *)

Plans ==
    {[cfg |-> c, seed |-> 1, X |-> Stairs(f), y |-> TargetOf({-1, 1})] :
        c \in Configs, f \in FeatCounts}

InitPair ==
    /\ rng \in RngStates
    /\ obj = [i \in Insts |-> NoObj]
    /\ nops = [i \in Insts |-> 0]
    /\ last = [i \in Insts |-> NoFit]
    /\ call = NoCall
    /\ hist = [i \in Insts |-> <<>>]
    /\ plan \in Plans

PairNew(i, e) ==
    /\ Construct(i, [plan.cfg EXCEPT !.epochs = e], plan.seed)
    /\ UNCHANGED <<hist, plan>>

PairFit(i, init_weights) ==
    /\ Len(hist[i]) < 2
    /\ FitCall(i, plan.X, plan.y, init_weights)
    /\ UNCHANGED plan

NextPair ==
    \/ \E i \in Insts, e \in {plan.cfg.epochs, 2 * plan.cfg.epochs} : PairNew(i, e)
    \/ \E i \in Insts, init_weights \in BOOLEAN : PairFit(i, init_weights)

SpecPair == InitPair /\ [][NextPair]_vars

FitOnceOk(i) == Len(hist[i]) = 1 /\ hist[i][1].err = "none"

(* C6: two fresh instances with the same non-null seed, zero_init_weight
   False and the same hyperparameters, each fitted once on the same inputs,
   end with identical weights and cost histories, in every order in which
   each is constructed before it is fitted *)
C6_SeededRunsAgree ==
    (/\ FitOnceOk("a") /\ FitOnceOk("b")
     /\ hist["a"][1].init = hist["b"][1].init
     /\ obj["a"].epochs = obj["b"].epochs
     /\ plan.seed # None
     /\ ~plan.cfg.zero_init_weight) =>
        /\ obj["a"].w_ = obj["b"].w_
        /\ obj["a"].cost_ = obj["b"].cost_

(* The instance i, of k epochs, was fitted and then fitted again with
   init_weights=False; the instance j, of 2k epochs, was fitted once; both
   first fits started from the same weights *)
Continued(i, j) ==
    /\ plan.cfg.solver \in {"gd", "sgd"} /\ ~plan.cfg.shuffle
    /\ obj[i].alive /\ obj[j].alive
    /\ obj[j].epochs = 2 * obj[i].epochs
    /\ Len(hist[i]) = 2 /\ hist[i][1].err = "none"
    /\ ~hist[i][2].init /\ hist[i][2].err = "none"
    /\ FitOnceOk(j)
    /\ hist[i][1].w0 = hist[j][1].w0

(* C10: for gd or sgd without shuffling and from the same initial weights,
   a fit of k epochs followed by a fit with init_weights=False on the same
   data gives the weights of one fit of 2k epochs, and the cost history
   after the second call is the last k entries of the 2k-epoch history *)
C10_ContinuationIsLongerFit ==
    \A i, j \in Insts :
        Continued(i, j) =>
            /\ obj[i].w_ = obj[j].w_
            /\ obj[i].cost_ =
                   SubSeq(obj[j].cost_, obj[i].epochs + 1, 2 * obj[i].epochs)

C10_Witness ==
    /\ Continued("a", "b")
    /\ ~plan.cfg.zero_init_weight
    /\ obj["a"].epochs = MaxEpochs
    /\ obj["a"].w_ # hist["a"][2].w0

====
